---- MODULE Spec2Model ----
(***************************************************************************)
(* cf_ai_dev_copilot: admission control (RateLimiter and the API routes    *)
(* that call it), the DevCopilotAgent session store (messages, project     *)
(* context, session metadata) and the Chat turn loop.                      *)
(*                                                                         *)
(* The specifications share the variables; each drives one component and   *)
(* leaves the others at their initial value:                               *)
(*   SpecRL    - RateLimiter.check with any configuration                  *)
(*   SpecRoute - the chat and tools routes behind their limiters           *)
(*   SpecMsg   - DevCopilotAgent: the messages table                       *)
(*   SpecCtx   - DevCopilotAgent: the project context                      *)
(*   SpecStore - DevCopilotAgent: messages, context and session together   *)
(*   SpecChat  - Chat.onChatMessage: the streamText step loop and the      *)
(*               persistence of a turn into the DevCopilotAgent            *)
(***************************************************************************)
EXTENDS Integers, Sequences, FiniteSets, TLC

(***************************************************************************)
(* Bounds of the model.                                                    *)
(***************************************************************************)
MaxRequestsBound == 2
MaxWindowMs == 2
MaxTime == 3
MaxReqs == 3
MaxRouteLimit == 2
MaxRouteReqs == 3
MaxClock == 1
MaxMsgs == 2
MaxStoreMsgs == 1
MaxListLen == 2
MaxChatMessages == 4
MaxChatStore == 3
MaxArenaMsgs == 1
MaxModelCalls == 4
MaxTimers == 4

VARIABLES
  \* ---- rate limiter and routes
  now,        \* Date.now() as seen by the API process
  rlConfig,   \* limiter -> [maxRequests, windowMs]   (RateLimiter.config)
  rlStore,    \* limiter -> key -> entry | NoEntry    (RateLimiter.store)
  reqs,       \* requests in arrival order, each with the RateLimitResult
              \* its check returned and how far its handler has got
  \* ---- DevCopilotAgent (one Durable Object instance)
  msgs,       \* table messages, rows in insertion (rowid) order
  ctxRow,     \* table project_context: its single row, or NoRow
  sessRow,    \* table session_info: its single row, or NoRow
  cache,      \* this.sessionCache
  lastOp,     \* the public method that ran last, and whether it succeeded
  expect      \* what the context updates made so far were given: the values
              \* supplied for the scalar fields last, the list entries in the
              \* order supplied, the set of service tags
  \* ---- Chat (the AIChatAgent Durable Object)
  ,turn       \* the turn onChatMessage is serving: how far it got, the model
              \* invocations made, this.messages, what reached the client
  \* ---- the worker and the routes in front of it
  ,arena      \* env.COPILOT_AGENT: Durable Object name -> the state of the
              \* DevCopilotAgent of that name, or NoDO before its first use
  ,lastReq    \* the request served last: where it came in, the session id
              \* it carried, whether RateLimiter.check admitted it, what it
              \* reached
  ,hitl       \* the Chat agent's conversation as far as tool confirmation
              \* goes: this.messages and the model invocations made
  \* ---- the cleanup timers of the API process
  ,timers     \* the number of RateLimiter instances whose cleanup interval
              \* is running
  ,shadow     \* the store of a RateLimiter that is given the same checks
              \* and whose cleanup never runs

rlVars == <<rlConfig, rlStore, reqs>>
doVars == <<msgs, ctxRow, sessRow, cache, lastOp, expect>>
chatVars == <<turn>>
wkVars == <<arena, lastReq, hitl>>
swVars == <<timers, shadow>>

vars == <<now, rlConfig, rlStore, reqs, msgs, ctxRow, sessRow, cache, lastOp,
          expect, turn, arena, lastReq, hitl, timers, shadow>>

(***************************************************************************)
(* RateLimiter (src/src/api/rate-limiter.ts)                               *)
(***************************************************************************)
Limiters == {"chat", "tool"}
Keys == {"ip1", "ip2"}
\* getClientIdentifier: the requests of one client reach both routes
RouteKeys == {"ip1"}
NoEntry == [count |-> 0, resetAt |-> -1]
Undefined == -1

\* Math.ceil(a / b) for b > 0, a >= 0
Ceil(a, b) == (a + b - 1) \div b

MsPerSecond == 1000

\* "No existing entry or window expired"
WindowExpiredOffByOne(entry, t) == entry = NoEntry \/ t >= entry.resetAt
WindowExpired(entry, t) == entry = NoEntry \/ t > entry.resetAt

\* "Within window": room left under the limit
UnderLimitInclusive(entry, cfg) == entry.count <= cfg.maxRequests
UnderLimit(entry, cfg) == entry.count < cfg.maxRequests

\* The entry check() leaves in the store for the key
CheckEntryNoIncrement(entry, cfg, t) ==
  IF WindowExpired(entry, t) THEN [count |-> 1, resetAt |-> t + cfg.windowMs]
  ELSE entry
CheckEntry(entry, cfg, t) ==
  IF WindowExpired(entry, t) THEN [count |-> 1, resetAt |-> t + cfg.windowMs]
  ELSE IF UnderLimit(entry, cfg) THEN [entry EXCEPT !.count = @ + 1]
  ELSE entry

\* The RateLimitResult check() returns
CheckResult(entry, cfg, t) ==
  IF WindowExpired(entry, t)
  THEN [allowed |-> TRUE, remaining |-> cfg.maxRequests - 1,
        limit |-> cfg.maxRequests, resetAt |-> t + cfg.windowMs,
        retryAfter |-> Undefined]
  ELSE IF UnderLimit(entry, cfg)
  THEN [allowed |-> TRUE, remaining |-> cfg.maxRequests - (entry.count + 1),
        limit |-> cfg.maxRequests, resetAt |-> entry.resetAt,
        retryAfter |-> Undefined]
  ELSE [allowed |-> FALSE, remaining |-> 0,
        limit |-> cfg.maxRequests, resetAt |-> entry.resetAt,
        retryAfter |-> Ceil(entry.resetAt - t, MsPerSecond)]

\* getHeaders: Retry-After is set only when retryAfter is defined
NoHeader == -2
GetHeadersDropRetryAfter(result) ==
  [limit |-> result.limit, remaining |-> result.remaining,
   reset |-> result.resetAt, retryAfter |-> NoHeader]
GetHeaders(result) ==
  [limit |-> result.limit, remaining |-> result.remaining,
   reset |-> result.resetAt,
   retryAfter |-> IF result.retryAfter # Undefined THEN result.retryAfter
                  ELSE NoHeader]

\* new RateLimiter(): the constructor starts the cleanup interval of the
\* instance; n intervals were running
NewRateLimiterNoInterval(n) == n
NewRateLimiter(n) == n + 1
\* chatRateLimiter and toolRateLimiter, constructed when the module loads
ModuleLimiters == Cardinality(Limiters)
\* The intervals running after a route answered a check: for the headers
\* of a 429 createRateLimitResponse constructs a RateLimiter, which nothing
\* destroys
TimersAfterCheck(n, allowed) == IF allowed THEN n ELSE NewRateLimiter(n)

\* cleanup(): the entries it deletes
SweepExpiredEarly(entry, t) == t >= entry.resetAt
SweepExpired(entry, t) == t > entry.resetAt
Swept(store, t) ==
  [k \in DOMAIN store |->
     IF store[k] # NoEntry /\ SweepExpired(store[k], t) THEN NoEntry
     ELSE store[k]]

\* createRateLimitResponse
CreateRateLimitResponse(result) ==
  [status |-> 429,
   detailsRetryAfter |-> result.retryAfter,
   headerRetryAfter |-> GetHeaders(result).retryAfter]

(***************************************************************************)
(* The routes in front of the worker: POST /api/chat and POST /api/tools   *)
(***************************************************************************)
Routes == {"chat", "tool"}
LimiterOf(route) == route

NoResponse == [status |-> 0, detailsRetryAfter |-> Undefined,
               headerRetryAfter |-> NoHeader]
PlainResponse(s) == [status |-> s, detailsRetryAfter |-> Undefined,
                     headerRetryAfter |-> NoHeader]

\* Where an admitted request goes next / what a denied one is answered
AfterCheckAlwaysForward(r, result) ==
  [r EXCEPT !.pc = "parsing"]
AfterCheck(r, result) ==
  IF result.allowed
  THEN [r EXCEPT !.pc = "parsing"]
  ELSE [r EXCEPT !.pc = "done", !.response = CreateRateLimitResponse(result)]

\* One call of RateLimiter.check(key) at time now, with what it returned
CheckCall(lim, key) ==
  LET cfg == rlConfig[lim]
      entry == rlStore[lim][key]
      result == CheckResult(entry, cfg, now)
  IN [lim |-> lim, key |-> key, t |-> now,
      allowed |-> result.allowed, remaining |-> result.remaining,
      limit |-> result.limit,
      resetAt |-> result.resetAt, retryAfter |-> result.retryAfter,
      count |-> CheckEntry(entry, cfg, now).count,
      pc |-> "checked", forwarded |-> FALSE, response |-> NoResponse]

\* RateLimiter.check called on its own
Check(lim, key) ==
  /\ Len(reqs) < MaxReqs
  /\ rlStore' = [rlStore EXCEPT ![lim][key] =
                   CheckEntry(rlStore[lim][key], rlConfig[lim], now)]
  /\ reqs' = Append(reqs, CheckCall(lim, key))
  /\ UNCHANGED <<now, wkVars, rlConfig, doVars, chatVars, swVars>>

\* check(key) on the limiter and on one that never sweeps
SweepCheck(lim, key) ==
  /\ Len(reqs) < MaxReqs
  /\ rlStore' = [rlStore EXCEPT ![lim][key] =
                   CheckEntry(rlStore[lim][key], rlConfig[lim], now)]
  /\ shadow' = [shadow EXCEPT ![lim][key] =
                  CheckEntry(shadow[lim][key], rlConfig[lim], now)]
  /\ reqs' = Append(reqs, CheckCall(lim, key))
  /\ UNCHANGED <<now, wkVars, rlConfig, doVars, chatVars, timers>>

\* The interval fires: cleanup() of that limiter
Cleanup(lim) ==
  /\ rlStore' = [rlStore EXCEPT ![lim] = Swept(@, now)]
  /\ UNCHANGED <<now, wkVars, rlConfig, reqs, doVars, chatVars, swVars>>

\* POST up to its first await: getClientIdentifier, limiter.check and, on
\* denial, the 429 answer run synchronously when the request arrives
RouteCheck(route, key) ==
  /\ Len(reqs) < MaxRouteReqs
  /\ LET lim == LimiterOf(route)
         call == CheckCall(lim, key)
     IN /\ rlStore' = [rlStore EXCEPT ![lim][key] =
                         CheckEntry(rlStore[lim][key], rlConfig[lim], now)]
        /\ reqs' = Append(reqs, AfterCheck(call, call))
        /\ timers' = TimersAfterCheck(timers, call.allowed)
  /\ UNCHANGED <<now, wkVars, rlConfig, doVars, chatVars, shadow>>

\* request.json() + validate...Request: 400, or the request goes to the worker
RouteParseValidate(i) ==
  /\ reqs[i].pc = "parsing"
  /\ \E bodyOk \in BOOLEAN :
       reqs' = [reqs EXCEPT ![i] =
                  IF bodyOk
                  THEN [@ EXCEPT !.pc = "forwarded", !.forwarded = TRUE]
                  ELSE [@ EXCEPT !.pc = "done", !.response = PlainResponse(400)]]
  /\ UNCHANGED <<now, wkVars, rlConfig, rlStore, doVars, chatVars, swVars>>

\* The worker answers; the route relays the answer
WorkerReply(i) ==
  /\ reqs[i].pc = "forwarded"
  /\ reqs' = [reqs EXCEPT ![i] = [@ EXCEPT !.pc = "done",
                                            !.response = PlainResponse(200)]]
  /\ UNCHANGED <<now, wkVars, rlConfig, rlStore, doVars, chatVars, swVars>>

Tick ==
  /\ now < MaxTime
  /\ now' = now + 1
  /\ UNCHANGED <<wkVars, rlVars, doVars, chatVars, swVars>>

(***************************************************************************)
(* DevCopilotAgent: the session store (src/unnamed/part_002)               *)
(*                                                                         *)
(* SqlStorageCursor.one() is modelled as the code reads it: the row, or    *)
(* nothing when the table is empty (the branches "if (existing)" and       *)
(* "if (!row)").                                                           *)
(***************************************************************************)
\* JavaScript / SQL values
Nullish == [k |-> "null"]        \* null, SQL NULL
Undef == [k |-> "undefined"]     \* the key is there and holds undefined
Absent == [k |-> "absent"]       \* the object has no such key
Txt(s) == [k |-> "text", v |-> s]
Arr(q) == [k |-> "array", v |-> q]
Json(q) == [k |-> "json", v |-> q]   \* JSON.stringify of an array
Truthy(x) == x.k \in {"array", "json"} \/ (x.k = "text" /\ x.v # "")

JsonStringify(x) == Json(x.v)
JsonParse(x) == Arr(x.v)

NoRow == [k |-> "norow"]
NoCache == [k |-> "nocache"]

\* generateId(): `${Date.now()}-${random suffix}`
Rand == {"k3x9", "q7m2"}
GenerateId(t, r) == <<t, r>>

\* getCurrentTimestamp(): ISO strings of equal width order as the instants do
GetCurrentTimestamp(t) == t

ValidRoles == {"user", "assistant", "system"}
PostedRoles == {"user", "assistant", "tool"}
Contents == {"hello"}

\* The row ensureSession() inserts, and the cache it fills
NewSessionRow(t, r) ==
  [session_id |-> GenerateId(t, r), created_at |-> GetCurrentTimestamp(t),
   last_activity_at |-> GetCurrentTimestamp(t), message_count |-> 0,
   is_active |-> 1]
CacheOf(row) ==
  [sessionId |-> row.session_id, createdAt |-> row.created_at,
   lastActivityAt |-> row.last_activity_at, messageCount |-> row.message_count,
   isActive |-> (row.is_active = 1)]

\* ensureSession(): <<session_info row, sessionCache>> afterwards
EnsureSession(row, t, r) ==
  IF row # NoRow THEN <<row, CacheOf(row)>>
  ELSE <<NewSessionRow(t, r), CacheOf(NewSessionRow(t, r))>>

\* updateSessionActivity() as it would be if the UPDATE also set is_active
ActivityRowReactivates(row, t) ==
  IF row = NoRow THEN row
  ELSE [row EXCEPT !.last_activity_at = GetCurrentTimestamp(t), !.is_active = 1]

\* updateSessionActivity(): UPDATE ... WHERE id = 1, then the cache if any
ActivityRow(row, t) ==
  IF row = NoRow THEN row
  ELSE [row EXCEPT !.last_activity_at = GetCurrentTimestamp(t)]
ActivityCache(c, t) ==
  IF c = NoCache THEN c ELSE [c EXCEPT !.lastActivityAt = GetCurrentTimestamp(t)]

\* incrementMessageCount()
IncrementRow(row) ==
  IF row = NoRow THEN row ELSE [row EXCEPT !.message_count = @ + 1]
IncrementCache(c) ==
  IF c = NoCache THEN c ELSE [c EXCEPT !.messageCount = @ + 1]

Op(name, ok) == [op |-> name, ok |-> ok]

\* An INSERT with no constraint on the table
InsertNeverFails(id, role) == FALSE

\* INSERT INTO messages: PRIMARY KEY(id), CHECK(role IN (...))
InsertFails(id, role) ==
  \/ role \notin ValidRoles
  \/ \E i \in 1..Len(msgs) : msgs[i].id = id

\* addMessage(role, content): r is the random suffix generateId() draws
StoreMessage(role, content, r, cap) ==
  LET id == GenerateId(now, r)
      row == [id |-> id, role |-> role, content |-> content,
              timestamp |-> GetCurrentTimestamp(now)]
  IN /\ Len(msgs) < cap
     /\ sessRow # NoRow => sessRow.message_count <= cap
     /\ IF InsertFails(id, role)
        THEN /\ lastOp' = Op("addMessage", FALSE)
             /\ UNCHANGED <<msgs, sessRow, cache>>
        ELSE /\ msgs' = Append(msgs, row)
             /\ sessRow' = ActivityRow(IncrementRow(sessRow), now)
             /\ cache' = ActivityCache(IncrementCache(cache), now)
             /\ lastOp' = Op("addMessage", TRUE)
     /\ UNCHANGED <<now, wkVars, rlVars, ctxRow, expect, swVars>>
AddMessage(role, content, r, cap) ==
  StoreMessage(role, content, r, cap) /\ UNCHANGED chatVars

\* GetHistoryOptions; NoOpt stands for an option that is not given
NoOpt == "none"
NoLimit == 0
Filter(role, after, before, limit) ==
  [role |-> role, after |-> after, before |-> before, limit |-> limit]

\* WHERE 1=1 AND role = ? AND timestamp > ? AND timestamp < ?
Matches(m, f) ==
  /\ f.role # NoOpt => m.role = f.role
  /\ f.after.k # "absent" => m.timestamp > f.after.v
  /\ f.before.k # "absent" => m.timestamp < f.before.v

RECURSIVE SelectWhere(_, _)
SelectWhere(rows, f) ==
  IF rows = <<>> THEN <<>>
  ELSE IF Matches(Head(rows), f)
       THEN <<Head(rows)>> \o SelectWhere(Tail(rows), f)
       ELSE SelectWhere(Tail(rows), f)

\* ORDER BY timestamp DESC (rows of equal timestamp stay in rowid order)
RECURSIVE InsertDesc(_, _)
InsertDesc(m, sorted) ==
  IF sorted = <<>> THEN <<m>>
  ELSE IF Head(sorted).timestamp > m.timestamp
       THEN <<Head(sorted)>> \o InsertDesc(m, Tail(sorted))
       ELSE <<m>> \o sorted
RECURSIVE OrderByTimestampDesc(_)
OrderByTimestampDesc(rows) ==
  IF rows = <<>> THEN <<>>
  ELSE InsertDesc(Head(rows), OrderByTimestampDesc(Tail(rows)))

\* LIMIT ? is added only when options.limit > 0
ApplyLimitOldest(rows, limit) ==
  IF limit > 0 /\ limit < Len(rows)
  THEN SubSeq(rows, Len(rows) - limit + 1, Len(rows)) ELSE rows
ApplyLimit(rows, limit) ==
  IF limit > 0 /\ limit < Len(rows) THEN SubSeq(rows, 1, limit) ELSE rows

RECURSIVE Reverse(_)
Reverse(q) == IF q = <<>> THEN <<>> ELSE Reverse(Tail(q)) \o <<Head(q)>>

\* getConversationHistory(options): the messages it returns
GetConversationHistoryNoReverse(rows, f) ==
  ApplyLimit(OrderByTimestampDesc(SelectWhere(rows, f)), f.limit)
GetConversationHistory(rows, f) ==
  Reverse(ApplyLimit(OrderByTimestampDesc(SelectWhere(rows, f)), f.limit))

\* The filters callers pass (timestamps they compare with lie on the clock)
Filters ==
  {Filter(role, after, before, limit) :
     role \in {NoOpt, "user"}, after \in {Absent, Txt(0)},
     before \in {Absent, Txt(MaxClock)}, limit \in {NoLimit, 1, 2}}

\* fetch(), GET /messages: the query's limit and role are read and passed
\* to getConversationHistory; no other search parameter is read
GetMessages(rows, query) ==
  GetConversationHistory(rows, Filter(query.role, Absent, Absent, query.limit))

\* getConversationHistory(options) as a call: it returns
\* GetConversationHistory(msgs, options) and counts as activity
GetHistory ==
  /\ sessRow' = ActivityRow(sessRow, now)
  /\ cache' = ActivityCache(cache, now)
  /\ lastOp' = Op("getHistory", TRUE)
  /\ UNCHANGED <<now, wkVars, rlVars, chatVars, msgs, ctxRow, expect, swVars>>

RECURSIVE DeleteWhereId(_, _)
DeleteWhereId(rows, id) ==
  IF rows = <<>> THEN <<>>
  ELSE IF Head(rows).id = id THEN DeleteWhereId(Tail(rows), id)
       ELSE <<Head(rows)>> \o DeleteWhereId(Tail(rows), id)

\* deleteMessage(messageId)
DeleteMessage(id) ==
  /\ msgs' = DeleteWhereId(msgs, id)
  /\ lastOp' = Op("deleteMessage", TRUE)
  /\ UNCHANGED <<now, wkVars, rlVars, chatVars, ctxRow, sessRow, cache, expect, swVars>>

\* getSessionInfo(): ensureSession()
GetSessionInfo(r) ==
  /\ sessRow' = EnsureSession(sessRow, now, r)[1]
  /\ cache' = EnsureSession(sessRow, now, r)[2]
  /\ lastOp' = Op("getSession", TRUE)
  /\ UNCHANGED <<now, wkVars, rlVars, chatVars, msgs, ctxRow, expect, swVars>>

\* deactivateSession()
DeactivateSession ==
  /\ sessRow' = IF sessRow = NoRow THEN sessRow
                ELSE [sessRow EXCEPT !.is_active = 0]
  /\ cache' = IF cache = NoCache THEN cache ELSE [cache EXCEPT !.isActive = FALSE]
  /\ lastOp' = Op("deactivate", TRUE)
  /\ UNCHANGED <<now, wkVars, rlVars, chatVars, msgs, ctxRow, expect, swVars>>

(***************************************************************************)
(* Project context                                                         *)
(***************************************************************************)
IsValue(x) == x.k \in {"text", "array", "json"}

\* x ?? null
OrNull(x) == IF IsValue(x) THEN x ELSE Nullish

EmptyContext ==
  [workerCode |-> Absent, errorLogs |-> Absent, resolvedIssues |-> Absent,
   cloudflareServices |-> Absent, projectName |-> Absent, lastUpdated |-> Absent]

\* getProjectContext(): {} without a row; a NULL column of JSON reads as
\* undefined, a NULL text column as null
ParseColumn(col) == IF Truthy(col) THEN JsonParse(col) ELSE Undef
GetProjectContext(row) ==
  IF row = NoRow THEN EmptyContext
  ELSE [workerCode |-> row.worker_code,
        errorLogs |-> ParseColumn(row.error_logs),
        resolvedIssues |-> ParseColumn(row.resolved_issues),
        cloudflareServices |-> ParseColumn(row.cloudflare_services),
        projectName |-> row.project_name,
        lastUpdated |-> row.last_updated]

\* A spread in which a key of context that repeats the existing value clears it
SpreadToggling(existing, context) ==
  [f \in DOMAIN existing |->
     IF context[f] = Absent THEN existing[f]
     ELSE IF context[f] = existing[f] THEN Nullish
     ELSE context[f]]

\* { ...existing, ...context }: a key of context wins whatever it holds
Spread(existing, context) ==
  [f \in DOMAIN existing |-> IF context[f] # Absent THEN context[f] ELSE existing[f]]

\* [...new Set(list)]: first occurrences, in order
RECURSIVE Dedupe(_)
Dedupe(q) ==
  IF q = <<>> THEN <<>>
  ELSE LET front == Dedupe(SubSeq(q, 1, Len(q) - 1))
           last == q[Len(q)]
       IN IF \E i \in 1..Len(front) : front[i] = last THEN front
          ELSE Append(front, last)

\* The merge of updateProjectContext
ConcatIfBoth(existing, given, merged) ==
  IF Truthy(given) /\ Truthy(existing) THEN Arr(existing.v \o given.v) ELSE merged
UnionIfBoth(existing, given, merged) ==
  IF Truthy(given) /\ Truthy(existing) THEN Arr(Dedupe(existing.v \o given.v))
  ELSE merged
MergeLists(existing, context, merged, t) ==
  [workerCode |-> merged.workerCode,
   errorLogs |-> ConcatIfBoth(existing.errorLogs, context.errorLogs,
                              merged.errorLogs),
   resolvedIssues |-> ConcatIfBoth(existing.resolvedIssues,
                                   context.resolvedIssues,
                                   merged.resolvedIssues),
   cloudflareServices |-> UnionIfBoth(existing.cloudflareServices,
                                      context.cloudflareServices,
                                      merged.cloudflareServices),
   projectName |-> merged.projectName,
   lastUpdated |-> Txt(GetCurrentTimestamp(t))]
MergeContext(existing, context, t) ==
  MergeLists(existing, context, Spread(existing, context), t)

\* The row the upsert writes
StringifyColumn(x) == IF Truthy(x) THEN JsonStringify(x) ELSE Nullish
ContextRow(merged) ==
  [worker_code |-> OrNull(merged.workerCode),
   error_logs |-> StringifyColumn(merged.errorLogs),
   resolved_issues |-> StringifyColumn(merged.resolvedIssues),
   cloudflare_services |-> StringifyColumn(merged.cloudflareServices),
   project_name |-> OrNull(merged.projectName),
   last_updated |-> OrNull(merged.lastUpdated)]

\* What the caller has supplied so far
NothingSupplied ==
  [workerCode |-> Nullish, projectName |-> Nullish, errorLogs |-> <<>>,
   resolvedIssues |-> <<>>, cloudflareServices |-> {}]
SeqOf(x) == IF x.k = "array" THEN x.v ELSE <<>>
Range(q) == {q[i] : i \in 1..Len(q)}
Supplied(e, context) ==
  [workerCode |-> IF context.workerCode.k \in {"text", "null"}
                  THEN context.workerCode ELSE e.workerCode,
   projectName |-> IF context.projectName.k \in {"text", "null"}
                   THEN context.projectName ELSE e.projectName,
   errorLogs |-> e.errorLogs \o SeqOf(context.errorLogs),
   resolvedIssues |-> e.resolvedIssues \o SeqOf(context.resolvedIssues),
   cloudflareServices |-> e.cloudflareServices
                            \cup Range(SeqOf(context.cloudflareServices))]

ColumnLen(col) == IF col.k = "json" THEN Len(col.v) ELSE 0

\* updateProjectContext(context)
UpdateProjectContext(context) ==
  /\ ctxRow' = ContextRow(MergeContext(GetProjectContext(ctxRow), context, now))
  /\ ColumnLen(ctxRow'.error_logs) <= MaxListLen
  /\ ColumnLen(ctxRow'.resolved_issues) <= MaxListLen
  /\ ColumnLen(ctxRow'.cloudflare_services) <= MaxListLen
  /\ expect' = Supplied(expect, context)
  /\ Len(expect'.errorLogs) <= MaxListLen
  /\ Len(expect'.resolvedIssues) <= MaxListLen
  /\ sessRow' = ActivityRow(sessRow, now)
  /\ cache' = ActivityCache(cache, now)
  /\ lastOp' = Op("updateContext", TRUE)
  /\ UNCHANGED <<now, wkVars, rlVars, chatVars, msgs, swVars>>

Partial(wc, el, ri, cs, pn) ==
  [workerCode |-> wc, errorLogs |-> el, resolvedIssues |-> ri,
   cloudflareServices |-> cs, projectName |-> pn, lastUpdated |-> Absent]

\* addErrorLogs(logs)
AddErrorLogs(logs) ==
  UpdateProjectContext(Partial(Absent, Arr(logs), Absent, Absent, Absent))

\* addResolvedIssue(issue, solution)
AddResolvedIssue(issue) ==
  UpdateProjectContext(Partial(Absent, Absent, Arr(<<issue>>), Absent, Absent))

\* setWorkerCode(code, projectName?): the partial always has the key
\* projectName; it holds undefined when the argument is left out
SetWorkerCode(code, projectName) ==
  UpdateProjectContext(Partial(Txt(code), Absent, Absent, Absent, projectName))

\* getProjectContext() as a call
GetContext ==
  /\ lastOp' = Op("getContext", TRUE)
  /\ UNCHANGED <<now, wkVars, rlVars, chatVars, msgs, ctxRow, sessRow, cache, expect, swVars>>

\* Values a caller may pass
WorkerCodes == {"c1", "c2"}
ProjectNames == {"p1"}
LogLists == {<<"e1">>, <<"e2">>}
Issues == {"i1"}
ServiceLists == {<<"KV">>, <<"KV", "KV">>, <<"KV", "R2">>}
NotAValue == {Undef, Nullish}
EmptyPartial == Partial(Absent, Absent, Absent, Absent, Absent)

\* The partials a caller of updateProjectContext or PUT /context passes: the
\* empty one and those with one key, holding a value, null or undefined (the
\* merge treats every key by itself)
Partials ==
  {EmptyPartial}
    \cup {[EmptyPartial EXCEPT !.workerCode = x] :
            x \in NotAValue \cup {Txt(v) : v \in WorkerCodes}}
    \cup {[EmptyPartial EXCEPT !.errorLogs = x] :
            x \in NotAValue \cup {Arr(v) : v \in LogLists}}
    \cup {[EmptyPartial EXCEPT !.resolvedIssues = x] :
            x \in NotAValue \cup {Arr(<<v>>) : v \in Issues}}
    \cup {[EmptyPartial EXCEPT !.cloudflareServices = x] :
            x \in NotAValue \cup {Arr(v) : v \in ServiceLists}}
    \cup {[EmptyPartial EXCEPT !.projectName = x] :
            x \in NotAValue \cup {Txt(v) : v \in ProjectNames}}

\* clearSession(): three DELETEs, the cache reset and ensureSession() inside
\* one try block. failAt = 0: no statement throws; failAt = n: the n-th
\* sql.exec (DELETE messages, DELETE project_context, DELETE session_info,
\* INSERT of ensureSession) throws, the catch returns success: false and the
\* statements before it stay applied.
ClearSteps == 0..4
ClearedMsgs(failAt) == IF failAt = 1 THEN msgs ELSE <<>>
ClearedCtx(failAt) == IF failAt \in {1, 2} THEN ctxRow ELSE NoRow
ClearedSessRow(failAt, t, r) ==
  IF failAt \in {1, 2, 3} THEN sessRow
  ELSE IF failAt = 4 THEN NoRow
  ELSE NewSessionRow(t, r)
ClearedCache(failAt, t, r) ==
  IF failAt \in {1, 2, 3} THEN cache
  ELSE IF failAt = 4 THEN NoCache
  ELSE CacheOf(NewSessionRow(t, r))

ClearSession(failAt, r) ==
  /\ msgs' = ClearedMsgs(failAt)
  /\ ctxRow' = ClearedCtx(failAt)
  /\ sessRow' = ClearedSessRow(failAt, now, r)
  /\ cache' = ClearedCache(failAt, now, r)
  /\ lastOp' = Op("clearSession", failAt = 0)
  /\ expect' = IF failAt \in {1, 2} THEN expect ELSE NothingSupplied
  /\ UNCHANGED <<now, wkVars, rlVars, chatVars, swVars>>

\* Date.now() of the Durable Object advances
ClockTick ==
  /\ now < MaxClock
  /\ now' = now + 1
  /\ UNCHANGED <<wkVars, rlVars, doVars, chatVars, swVars>>

\* The wall clock is set back (Date.now() is not monotonic)
ClockBack ==
  /\ now > 0
  /\ now' = now - 1
  /\ UNCHANGED <<wkVars, rlVars, doVars, chatVars, swVars>>

(***************************************************************************)
(* Chat.onChatMessage: one turn                                            *)
(***************************************************************************)
\* stopWhen: stepCountIs(10)
StepBudget == 10

\* What the model behind a turn may answer: "alwaysTool" asks for another
\* tool call on every invocation, "anyModel" answers as it likes
TurnKinds == {"alwaysTool", "anyModel"}
Outcomes(kind) ==
  IF kind = "alwaysTool" THEN {"tool-calls"} ELSE {"tool-calls", "stop", "error"}

IdleTurn ==
  [pc |-> "idle", kind |-> "anyModel", steps |-> 0, finishReason |-> "none",
   error |-> FALSE, cancelled |-> FALSE, replySaved |-> FALSE,
   messages |-> <<>>,
   before |-> <<>>,  \* the stored messages when the turn started
   alone |-> TRUE,   \* no other request reached the store during the turn
   writeFailed |-> FALSE]  \* a POST /messages of the turn did not store
TurnOver == {"idle", "finished", "failed", "aborted"}

\* stepCountIs(n) after a step: the number of steps made equals n
StepCountIs(n, steps) == steps = n

\* The loop of streamText goes on after a step that ended in tool calls
\* unless the stop condition is met
LoopContinues(outcome, steps) ==
  outcome = "tool-calls" /\ ~StepCountIs(StepBudget, steps)

\* A chat request arrives: the framework has stored the user message in
\* this.messages and calls onChatMessage, which starts streamText
StartTurn(kind) ==
  /\ turn.pc \in TurnOver
  /\ Len(turn.messages) + 2 <= MaxChatMessages
  /\ Len(msgs) + 2 <= MaxChatStore
  /\ turn' = [IdleTurn EXCEPT !.pc = "streaming", !.kind = kind,
                              !.messages = Append(turn.messages, "user"),
                              !.before = msgs]
  /\ UNCHANGED <<now, wkVars, rlVars, doVars, swVars>>

\* One step of streamText: one model invocation and the tool executions it
\* asked for. A failing invocation reaches the client as an error and ends
\* the turn without onFinish; a step after which the loop stops ends the
\* stream, and onFinish starts persistConversation. saved: whether the
\* framework has put the reply into this.messages by then.
ModelStep(outcome, saved) ==
  /\ turn.pc = "streaming"
  /\ outcome \in Outcomes(turn.kind)
  /\ turn' =
       IF outcome = "error"
       THEN [turn EXCEPT !.steps = @ + 1, !.pc = "failed", !.error = TRUE]
       ELSE IF LoopContinues(outcome, turn.steps + 1)
       THEN [turn EXCEPT !.steps = @ + 1]
       ELSE [turn EXCEPT !.steps = @ + 1, !.pc = "persistAssistant",
                         !.finishReason = outcome, !.replySaved = saved,
                         !.messages = IF saved THEN Append(@, "assistant") ELSE @]
  /\ UNCHANGED <<now, wkVars, rlVars, doVars, swVars>>

\* options.abortSignal fires while the stream runs
Abort ==
  /\ turn.pc = "streaming"
  /\ turn' = [turn EXCEPT !.pc = "aborted", !.cancelled = TRUE]
  /\ UNCHANGED <<now, wkVars, rlVars, doVars, swVars>>

\* persistConversation, first await: POST /messages with the assistant
\* message when the last of this.messages is one
PersistAssistant(r) ==
  /\ turn.pc = "persistAssistant"
  /\ IF turn.messages[Len(turn.messages)] = "assistant"
     THEN /\ StoreMessage("assistant", "reply", r, MaxChatStore)
          /\ turn' = [turn EXCEPT !.pc = "persistUser",
                                  !.writeFailed = ~lastOp'.ok]
     ELSE /\ UNCHANGED <<now, wkVars, rlVars, doVars, swVars>>
          /\ turn' = [turn EXCEPT !.pc = "persistUser"]

\* persistConversation, second await: POST /messages with the user message
\* when the last but one of this.messages is one; then the original
\* onFinish runs and the turn is over
PersistUser(r) ==
  /\ turn.pc = "persistUser"
  /\ IF Len(turn.messages) >= 2 /\ turn.messages[Len(turn.messages) - 1] = "user"
     THEN /\ StoreMessage("user", "hello", r, MaxChatStore)
          /\ turn' = [turn EXCEPT !.pc = "finished",
                                  !.writeFailed = @ \/ ~lastOp'.ok,
                                  !.messages = IF turn.replySaved THEN @
                                               ELSE Append(@, "assistant")]
     ELSE /\ UNCHANGED <<now, wkVars, rlVars, doVars, swVars>>
          /\ turn' = [turn EXCEPT !.pc = "finished",
                                  !.messages = IF turn.replySaved THEN @
                                               ELSE Append(@, "assistant")]

\* The writes to the store the turn in flight may still make
WritesAhead ==
  IF turn.pc \in {"streaming", "persistAssistant"} THEN 2
  ELSE IF turn.pc = "persistUser" THEN 1 ELSE 0

\* Another request of the session reaches the store, between the awaits of
\* a turn or outside one: POST /api/state/messages
PostMessage(r) ==
  /\ Len(msgs) + WritesAhead < MaxChatStore
  /\ StoreMessage("user", "hello", r, MaxChatStore)
  /\ turn' = [turn EXCEPT !.alone = @ /\ turn.pc \in TurnOver]

ChatConstructed == turn = IdleTurn

(***************************************************************************)
(* The worker entry point (src/src/server.ts) and the session route in     *)
(* front of it (src/unnamed/part_006)                                      *)
(***************************************************************************)
\* Session ids a caller carries, and the names Durable Objects are kept by
SessionIds == {"a", "b"}
DefaultName == "default"
DoNames == SessionIds \cup {DefaultName}
NoParam == "noparam"
NoDO == [k |-> "nodo"]

\* A DevCopilotAgent after its constructor: tables created, session ensured
NewDO(t, r) == [msgs |-> <<>>, ctxRow |-> NoRow, sessRow |-> NewSessionRow(t, r)]

\* env.COPILOT_AGENT.get(id): the instance is constructed on first use
GetStub(d, t, r) == IF d = NoDO THEN NewDO(t, r) ELSE d

\* addMessage on an instance d; the INSERT throws on a duplicate id
DoAddMessage(d, role, content, t, r) ==
  IF role \notin ValidRoles \/ \E i \in 1..Len(d.msgs) : d.msgs[i].id = GenerateId(t, r)
  THEN d
  ELSE [d EXCEPT !.msgs = Append(@, [id |-> GenerateId(t, r), role |-> role,
                                     content |-> content,
                                     timestamp |-> GetCurrentTimestamp(t)]),
                 !.sessRow = ActivityRow(IncrementRow(@), t)]

\* clearSession on an instance d, the failAt-th statement throwing
DoClearSession(d, failAt, t, r) ==
  [msgs |-> IF failAt = 1 THEN d.msgs ELSE <<>>,
   ctxRow |-> IF failAt \in {1, 2} THEN d.ctxRow ELSE NoRow,
   sessRow |-> IF failAt \in {1, 2, 3} THEN d.sessRow
               ELSE IF failAt = 4 THEN NoRow
               ELSE NewSessionRow(t, r)]

\* DevCopilotAgent.fetch: the instance after serving method + path
\* (a path is the sequence of its segments)
Methods == {"GET", "POST", "PUT", "DELETE"}
DoFetch(d, path, method, body, failAt, t, r) ==
  IF path = <<"messages">> /\ method = "POST"
    THEN DoAddMessage(d, body.role, body.content, t, r)
  ELSE IF path = <<"messages">> /\ method = "GET"
    THEN [d EXCEPT !.sessRow = ActivityRow(@, t)]
  ELSE IF path = <<"context">> /\ method = "GET"
    THEN d
  ELSE IF path = <<"context">> /\ method = "PUT"
    THEN [d EXCEPT !.ctxRow = ContextRow(MergeContext(GetProjectContext(@),
                                                       body, t)),
                   !.sessRow = ActivityRow(@, t)]
  ELSE IF path = <<"session">> /\ method = "GET"
    THEN [d EXCEPT !.sessRow = EnsureSession(@, t, r)[1]]
  ELSE IF path = <<"session">> /\ method = "DELETE"
    THEN DoClearSession(d, failAt, t, r)
  ELSE IF path = <<"state">> /\ method = "GET"
    THEN [d EXCEPT !.sessRow = ActivityRow(EnsureSession(@, t, r)[1], t)]
  ELSE d

\* handleStateAPI: the name of the Durable Object a request is served by
StateSessionId(param) == IF param = NoParam THEN DefaultName ELSE param
\* handleStateAPI: the request it sends to the Durable Object
StateRoutes == {"messages", "context", "session", "full"}
StatePath(route) == IF route = "full" THEN <<"state">> ELSE <<route>>
StateMethod(route, method) == IF route = "full" THEN "GET" ELSE method

\* What a request carries in its body
MessageBody == [role |-> "user", content |-> "hello"]
ContextBody == Partial(Txt("c1"), Absent, Absent, Absent, Absent)
BodyFor(route) == IF route = "context" THEN ContextBody ELSE MessageBody

Req(via, session, admitted, reached, target) ==
  [via |-> via, session |-> session, admitted |-> admitted,
   reached |-> reached, target |-> target]
NoReq == Req("none", NoParam, FALSE, "none", "none")

\* arena after the instance of that name served the request
Served(name, path, method, body, failAt, r) ==
  [arena EXCEPT ![name] =
     DoFetch(GetStub(@, now, r), path, method, body, failAt, now, r)]

\* worker fetch -> handleStateAPI: /api/state/<route>?session=<param>
HandleStateAPI(param, route, method, failAt, r) ==
  /\ arena' = Served(StateSessionId(param), StatePath(route),
                     StateMethod(route, method), BodyFor(route), failAt, r)
  /\ Len(arena'[StateSessionId(param)].msgs) <= MaxArenaMsgs

\* A caller of the worker's /api/state/* for the session it names
StateRequest(session, route, method, failAt, r) ==
  /\ HandleStateAPI(session, route, method, failAt, r)
  /\ lastReq' = Req("state", session, FALSE, "store", StateSessionId(session))
  /\ UNCHANGED <<now, rlVars, doVars, chatVars, hitl, swVars>>

\* forwardToWorkerSession(method, sessionId): the session id travels in the
\* header X-Session-ID, the URL is /api/state/session without a query
ForwardToWorkerSession(method, sessionId, failAt, r) ==
  HandleStateAPI(NoParam, "session", method, failAt, r)

\* GET, POST, DELETE of the session route for the session id of the request
SessionRouteMethods == {"GET", "POST", "DELETE"}
SessionRoute(method, sessionId, failAt, r) ==
  /\ ForwardToWorkerSession(method, sessionId, failAt, r)
  /\ lastReq' = Req("sessionRoute", sessionId, FALSE, "store",
                    StateSessionId(NoParam))
  /\ UNCHANGED <<now, rlVars, doVars, chatVars, hitl, swVars>>

\* worker fetch: which handler answers a path
Prefix(path, n) == IF Len(path) < n THEN path ELSE SubSeq(path, 1, n)
WorkerHandler(path) ==
  IF path = <<"health">> \/ path = <<"api", "health">> THEN "health"
  ELSE IF Len(path) > 2 /\ Prefix(path, 2) = <<"api", "tools">> THEN "tools"
  ELSE IF Len(path) > 2 /\ Prefix(path, 2) = <<"api", "state">> THEN "store"
  ELSE IF Len(path) > 2 /\ Prefix(path, 1) = <<"agents">> THEN "chat"
  ELSE "none"

\* POST of the chat route and of the tools route: RateLimiter.check, then
\* the admitted request is forwarded to the worker, the chat route's to
\* /api/chat, the tools route's to /api/tools/<tool>
ForwardPath(route) ==
  IF route = "chat" THEN <<"api", "chat">> ELSE <<"api", "tools", "review-code">>
RoutePost(route, key, bodyOk) ==
  /\ rlStore' = [rlStore EXCEPT ![LimiterOf(route)][key] =
                   CheckEntry(@, rlConfig[LimiterOf(route)], now)]
  /\ lastReq' = Req(route, NoParam, CheckCall(LimiterOf(route), key).allowed,
                    IF CheckCall(LimiterOf(route), key).allowed /\ bodyOk
                    THEN WorkerHandler(ForwardPath(route)) ELSE "none",
                    "none")
  /\ timers' = TimersAfterCheck(timers, CheckCall(LimiterOf(route), key).allowed)
  /\ timers' <= MaxTimers
  /\ UNCHANGED <<now, rlConfig, reqs, doVars, chatVars, arena, hitl, shadow>>

\* POST /api/tools/* sent to the worker: handleToolAPI runs the tool
ToolRequest ==
  /\ lastReq' = Req("toolApi", NoParam, FALSE,
                    WorkerHandler(<<"api", "tools", "review-code">>), "none")
  /\ UNCHANGED <<now, rlVars, doVars, chatVars, arena, hitl, swVars>>

\* persistConversation on the stub of that name: POST /messages for the
\* assistant's text (pa) and then for the user's message (pu)
Persisted(d, pa, pu, t, r1, r2) ==
  LET stub == IF pa \/ pu THEN GetStub(d, t, r1) ELSE d
      first == IF pa THEN DoAddMessage(stub, "assistant", "hello", t, r1) ELSE stub
  IN IF pu THEN DoAddMessage(first, "user", "hello", t, r2) ELSE first

\* routeAgentRequest: a chat request for the Chat agent of that name;
\* onChatMessage serves the turn and, when the stream finishes, persists
\* in the Durable Object idFromName(this.name || "default")
AgentRequest(name, pa, pu, r1, r2) ==
  /\ arena' = [arena EXCEPT ![name] = Persisted(@, pa, pu, now, r1, r2)]
  /\ arena'[name] # NoDO => Len(arena'[name].msgs) <= MaxArenaMsgs + 1
  /\ lastReq' = Req("agent", name, FALSE,
                    WorkerHandler(<<"agents", "chat", name>>), name)
  /\ UNCHANGED <<now, rlVars, doVars, chatVars, hitl, swVars>>

WorkerIdle ==
  /\ arena = [n \in DoNames |-> NoDO]
  /\ lastReq = NoReq

(***************************************************************************)
(* validateChatRequest (src/unnamed/part_005) and the chat route's POST    *)
(***************************************************************************)
MaxMessageLength == 50000
MaxSessionIdLength == 100

\* JSON values as far as their type and length go
Str(n) == [k |-> "string", len |-> n]
Num(n) == [k |-> "number", v |-> n]
Obj == [k |-> "object"]
NotJson == [k |-> "notjson"]
ChatBody(message, sessionId, projectContext) ==
  [k |-> "body", message |-> message, sessionId |-> sessionId,
   projectContext |-> projectContext]

\* typeof x
TypeOf(x) ==
  IF x.k \in {"absent", "undefined"} THEN "undefined"
  ELSE IF x.k = "string" THEN "string"
  ELSE IF x.k = "number" THEN "number"
  ELSE "object"
\* !x
Falsy(x) ==
  \/ x.k \in {"absent", "undefined", "null"}
  \/ x.k = "string" /\ x.len = 0
  \/ x.k = "number" /\ x.v = 0
\* body[f] for a parsed body; a value without that key gives undefined
Field(body, f) == IF body.k = "body" THEN body[f] ELSE Absent

MessageErrors(m) ==
  IF Falsy(m) THEN <<"Message is required">>
  ELSE IF TypeOf(m) # "string" THEN <<"Message must be a string">>
  ELSE IF m.len = 0 THEN <<"Message cannot be empty">>
  ELSE IF m.len > MaxMessageLength THEN <<"Message exceeds maximum length">>
  ELSE <<>>
SessionIdErrors(sid) ==
  IF TypeOf(sid) = "undefined" THEN <<>>
  ELSE IF TypeOf(sid) # "string" THEN <<"SessionId must be a string">>
  ELSE IF sid.len > MaxSessionIdLength THEN <<"SessionId exceeds maximum length">>
  ELSE <<>>
ProjectContextErrors(pc) ==
  IF TypeOf(pc) = "undefined" THEN <<>>
  ELSE IF TypeOf(pc) # "object" THEN <<"ProjectContext must be an object">>
  ELSE <<>>

\* validateChatRequest(body): the list of errors; valid when it is empty
ValidateChatRequest(body) ==
  IF Falsy(body) \/ (body.k # "body" /\ TypeOf(body) # "object")
  THEN <<"Request body must be an object">>
  ELSE MessageErrors(Field(body, "message"))
         \o SessionIdErrors(Field(body, "sessionId"))
         \o ProjectContextErrors(Field(body, "projectContext"))

\* The bodies a client may send
MessageValues ==
  {Absent, Nullish, Num(1), Str(0), Str(1), Str(MaxMessageLength),
   Str(MaxMessageLength + 1)}
SessionIdValues ==
  {Absent, Nullish, Num(1), Str(1), Str(MaxSessionIdLength),
   Str(MaxSessionIdLength + 1)}
ProjectContextValues == {Absent, Nullish, Str(1), Num(1), Obj, Arr(<<>>)}
ChatBodies ==
  {NotJson, Nullish, Str(1), Num(1), Arr(<<>>)}
    \cup {ChatBody(m, sid, pc) : m \in MessageValues, sid \in SessionIdValues,
                                 pc \in ProjectContextValues}

\* The status POST answers a body with once the request is admitted: 400
\* for a body that cannot be parsed or validated, else the worker's answer
WorkerStatuses == {200, 404}
PostStatus(body, workerStatus) ==
  IF body = NotJson THEN 400
  ELSE IF ValidateChatRequest(body) # <<>> THEN 400
  ELSE workerStatus
PostForwards(body) == body # NotJson /\ ValidateChatRequest(body) = <<>>

\* POST of the chat route with that body
ChatPost(key, body, workerStatus) ==
  /\ rlStore' = [rlStore EXCEPT !["chat"][key] =
                   CheckEntry(@, rlConfig["chat"], now)]
  /\ lastReq' =
       [via |-> "chatPost", session |-> NoParam,
        admitted |-> CheckCall("chat", key).allowed,
        reached |-> IF CheckCall("chat", key).allowed /\ PostForwards(body)
                    THEN WorkerHandler(ForwardPath("chat")) ELSE "none",
        target |-> "none",
        body |-> body,
        forwarded |-> CheckCall("chat", key).allowed /\ PostForwards(body),
        status |-> IF CheckCall("chat", key).allowed
                   THEN PostStatus(body, workerStatus)
                   ELSE CreateRateLimitResponse(CheckCall("chat", key)).status]
  /\ timers' = TimersAfterCheck(timers, CheckCall("chat", key).allowed)
  /\ timers' <= MaxTimers
  /\ UNCHANGED <<now, rlConfig, reqs, doVars, chatVars, arena, hitl, shadow>>

(***************************************************************************)
(* Tool confirmation: the client (src/unnamed/part_007) and onChatMessage  *)
(* (src/src/server.ts). cleanupMessages and processToolCalls come from     *)
(* ./utils and the tool catalogue from ./tools; they are modelled as the   *)
(* specification describes them.                                           *)
(***************************************************************************)
NoTool == [k |-> "notool"]
\* A tool part of an assistant message
ToolPart(callId, gated, state, output) ==
  [k |-> "tool", callId |-> callId, gated |-> gated, state |-> state,
   output |-> output]
UIMessage(role, tool) == [role |-> role, tool |-> tool]
Answers == {"yes", "no"}

\* A part the client is still asked to approve or reject
IsPendingPart(part) ==
  part # NoTool /\ part.state = "input-available" /\ part.gated

\* The call ids waiting for a confirmation in a message list
PendingCallIds(messages) ==
  {messages[i].tool.callId :
     i \in {j \in 1..Len(messages) : IsPendingPart(messages[j].tool)}}

\* pendingToolCallConfirmation: the input and the send button are disabled
PendingToolCallConfirmation(messages) ==
  \E i \in 1..Len(messages) : IsPendingPart(messages[i].tool)

\* cleanupMessages: messages holding a tool call without a result are dropped
IsIncomplete(part) == part # NoTool /\ part.state = "input-available"
RECURSIVE CleanupMessages(_)
CleanupMessages(messages) ==
  IF messages = <<>> THEN <<>>
  ELSE IF IsIncomplete(Head(messages).tool) THEN CleanupMessages(Tail(messages))
  ELSE <<Head(messages)>> \o CleanupMessages(Tail(messages))

\* processToolCalls: an approved call is executed and its output spliced in,
\* a rejected one is answered with a denial
ProcessPart(part) ==
  IF part = NoTool \/ part.state # "output-available" THEN part
  ELSE IF part.output = "yes" THEN [part EXCEPT !.output = "result"]
  ELSE IF part.output = "no" THEN [part EXCEPT !.output = "denied"]
  ELSE part
ProcessToolCalls(messages) ==
  [i \in 1..Len(messages) |-> [messages[i] EXCEPT !.tool = ProcessPart(@)]]

\* What the model answers an invocation with: text; the request to run a
\* tool that needs a confirmation; the call of a tool that streamText
\* executes at once ("tool"), after which it invokes the model again; such
\* a call during whose execution the turn is interrupted ("interrupted")
ModelAnswers == {"text", "confirm", "tool", "interrupted"}
Reply(answer, callId) ==
  IF answer = "confirm"
  THEN UIMessage("assistant", ToolPart(callId, TRUE, "input-available", "none"))
  ELSE IF answer = "tool"
  THEN UIMessage("assistant", ToolPart(callId, FALSE, "output-available", "result"))
  ELSE IF answer = "interrupted"
  THEN UIMessage("assistant", ToolPart(callId, FALSE, "input-available", "none"))
  ELSE UIMessage("assistant", NoTool)

\* One model invocation of streamText on the list seen, this.messages
\* being messages: the reply is streamed into the conversation; after an
\* executed tool call the loop goes on with the call and its result added
Invocation(messages, seen, answer, steps) ==
  [messages |-> Append(messages, Reply(answer, hitl.modelCalls + 1)),
   modelCalls |-> hitl.modelCalls + 1,
   unconfirmed |-> PendingCallIds(messages),
   seen |-> seen,
   next |-> Append(seen, Reply(answer, hitl.modelCalls + 1)),
   steps |-> steps,
   pc |-> IF LoopContinues(IF answer = "tool" THEN "tool-calls" ELSE "stop", steps)
          THEN "loop" ELSE "idle"]

\* onChatMessage that hands this.messages to streamText as they are
OnChatMessageNoCleanup(messages, answer) ==
  Invocation(messages, ProcessToolCalls(messages), answer, 1)

\* onChatMessage on this.messages = messages: cleanupMessages,
\* processToolCalls, then streamText on the result, whatever it holds
OnChatMessage(messages, answer) ==
  Invocation(messages, ProcessToolCalls(CleanupMessages(messages)), answer, 1)

\* The client sends a user message: from the form, which is disabled while
\* a confirmation is pending, or from the error-log panel (handleAnalyzeError)
SendSources == {"form", "analyze"}
SendMessage(source, answer) ==
  /\ hitl.pc = "idle"
  /\ hitl.modelCalls < MaxModelCalls
  /\ source = "form" => ~PendingToolCallConfirmation(hitl.messages)
  /\ hitl' = OnChatMessage(Append(hitl.messages, UIMessage("user", NoTool)),
                           answer)
  /\ UNCHANGED <<now, rlVars, doVars, chatVars, arena, lastReq, swVars>>

\* The client answers the confirmation of message i (addToolResult); the
\* conversation goes back to the agent
AddToolResult(i, yesNo, answer) ==
  /\ hitl.pc = "idle"
  /\ hitl.modelCalls < MaxModelCalls
  /\ i \in 1..Len(hitl.messages)
  /\ IsPendingPart(hitl.messages[i].tool)
  /\ hitl' = OnChatMessage(
               [hitl.messages EXCEPT ![i].tool =
                  [@ EXCEPT !.state = "output-available", !.output = yesNo]],
               answer)
  /\ UNCHANGED <<now, rlVars, doVars, chatVars, arena, lastReq, swVars>>

\* The step loop of streamText invokes the model again after a tool round
LoopStep(answer) ==
  /\ hitl.pc = "loop"
  /\ hitl.modelCalls < MaxModelCalls
  /\ hitl' = Invocation(hitl.messages, hitl.next, answer, hitl.steps + 1)
  /\ UNCHANGED <<now, rlVars, doVars, chatVars, arena, lastReq, swVars>>

HitlIdle ==
  hitl = [messages |-> <<>>, modelCalls |-> 0, unconfirmed |-> {},
          seen |-> <<>>, next |-> <<>>, steps |-> 0, pc |-> "idle"]

\* The state the constructor leaves: tables created, ensureSession() done
DOConstructed(r) ==
  /\ msgs = <<>>
  /\ ctxRow = NoRow
  /\ sessRow = NewSessionRow(0, r)
  /\ cache = CacheOf(NewSessionRow(0, r))
  /\ lastOp = Op("constructor", TRUE)
  /\ expect = NothingSupplied

LimitersIdle ==
  /\ rlConfig = [l \in Limiters |-> [maxRequests |-> MaxRouteLimit,
                                     windowMs |-> MaxWindowMs]]
  /\ rlStore = [l \in Limiters |-> [k \in Keys |-> NoEntry]]
  /\ reqs = <<>>

\* The intervals of the module's limiters run; the limiter that never
\* sweeps starts empty as well
TimersIdle ==
  /\ timers = ModuleLimiters
  /\ shadow = [l \in Limiters |-> [k \in Keys |-> NoEntry]]

\* A RateLimiter constructed with any configuration
Init ==
  /\ now = 0
  /\ \E w \in 1..MaxWindowMs :
       rlConfig \in [Limiters -> [maxRequests : 1..MaxRequestsBound,
                                   windowMs : {w}]]
  /\ rlStore = [l \in Limiters |-> [k \in Keys |-> NoEntry]]
  /\ reqs = <<>>
  /\ DOConstructed(0)
  /\ ChatConstructed
  /\ WorkerIdle
  /\ HitlIdle
  /\ TimersIdle

\* chatRateLimiter and toolRateLimiter as the routes' module constructs them
\* (30 and 60 requests per 60 s, scaled down to the bounds of the model)
InitRoute ==
  /\ now = 0
  /\ LimitersIdle
  /\ DOConstructed(0)
  /\ ChatConstructed
  /\ WorkerIdle
  /\ HitlIdle
  /\ TimersIdle

\* A DevCopilotAgent instance right after its constructor ran
InitDO ==
  /\ now = 0
  /\ LimitersIdle
  /\ \E r \in Rand : DOConstructed(r)
  /\ ChatConstructed
  /\ WorkerIdle
  /\ HitlIdle
  /\ TimersIdle

NextRL ==
  \/ \E lim \in Limiters, key \in Keys : Check(lim, key)
  \/ Tick

\* Checks of one limiter with its cleanup firing at any moment (the
\* limiters are separate instances: neither reads the other's store)
SweptLimiters == {"chat"}
NextSweep ==
  \/ \E lim \in SweptLimiters, key \in Keys : SweepCheck(lim, key)
  \/ \E lim \in SweptLimiters : Cleanup(lim)
  \/ Tick

NextRoute ==
  \/ \E route \in Routes, key \in RouteKeys : RouteCheck(route, key)
  \/ \E i \in 1..Len(reqs) : RouteParseValidate(i)
  \/ \E i \in 1..Len(reqs) : WorkerReply(i)
  \/ Tick

MessageIds == {GenerateId(t, r) : t \in 0..MaxClock, r \in Rand}

NextMsg ==
  \/ \E role \in PostedRoles, c \in Contents, r \in Rand :
       AddMessage(role, c, r, MaxMsgs)
  \/ GetHistory
  \/ \E id \in MessageIds : DeleteMessage(id)
  \/ ClockTick
  \/ ClockBack

NextCtx ==
  \/ \E c \in Partials : UpdateProjectContext(c)
  \/ \E logs \in LogLists : AddErrorLogs(logs)
  \/ \E i \in Issues : AddResolvedIssue(i)
  \/ \E code \in WorkerCodes, pn \in {Undef} \cup {Txt(x) : x \in ProjectNames} :
       SetWorkerCode(code, pn)

\* The store as a whole: messages, context and session together
NextStore ==
  \/ \E r \in Rand : AddMessage("user", "hello", r, MaxStoreMsgs)
  \/ \E code \in WorkerCodes, pn \in {Txt(x) : x \in ProjectNames} :
       SetWorkerCode(code, pn)
  \/ GetHistory
  \/ GetContext
  \/ \E r \in Rand : GetSessionInfo(r)
  \/ DeactivateSession
  \/ \E failAt \in ClearSteps, r \in Rand : ClearSession(failAt, r)
  \/ ClockTick

\* Chat turns, each persisting into the DevCopilotAgent
NextChat ==
  \/ \E kind \in TurnKinds : StartTurn(kind)
  \/ \E outcome \in {"tool-calls", "stop", "error"}, saved \in BOOLEAN :
       ModelStep(outcome, saved)
  \/ Abort
  \/ \E r \in Rand : PersistAssistant(r)
  \/ \E r \in Rand : PersistUser(r)
  \/ \E r \in Rand : PostMessage(r)
  \/ ClockTick

SpecRL == Init /\ [][NextRL]_vars

SpecRoute == InitRoute /\ [][NextRoute]_vars

SpecSweep == Init /\ [][NextSweep]_vars

SpecMsg == InitDO /\ [][NextMsg]_vars

SpecCtx == InitDO /\ [][NextCtx]_vars

SpecStore == InitDO /\ [][NextStore]_vars

SpecChat == InitDO /\ [][NextChat]_vars

\* Requests to the worker, to the session route and to the rate-limited routes
\* (the statements of the Durable Objects succeed)
NoFailure == {0}
NextWorker ==
  \/ \E session \in SessionIds \cup {NoParam}, route \in StateRoutes,
        method \in Methods, failAt \in NoFailure, r \in Rand :
       StateRequest(session, route, method, failAt, r)
  \/ \E method \in SessionRouteMethods, sessionId \in SessionIds,
        failAt \in NoFailure, r \in Rand :
       SessionRoute(method, sessionId, failAt, r)

\* Every way into the worker, for the client the application ships: its
\* agent and its requests without a session parameter use the name "default"
NextGate ==
  \/ \E route \in Routes, key \in RouteKeys, bodyOk \in BOOLEAN :
       RoutePost(route, key, bodyOk)
  \/ ToolRequest
  \/ \E pa \in BOOLEAN, pu \in BOOLEAN, r1 \in Rand, r2 \in Rand :
       AgentRequest(DefaultName, pa, pu, r1, r2)
  \/ \E route \in StateRoutes, method \in Methods, failAt \in NoFailure,
        r \in Rand :
       StateRequest(NoParam, route, method, failAt, r)
  \/ \E method \in SessionRouteMethods, sessionId \in SessionIds,
        failAt \in NoFailure, r \in Rand :
       SessionRoute(method, sessionId, failAt, r)

\* The conversation of one Chat agent with its client
NextConfirm ==
  \/ \E source \in SendSources, answer \in ModelAnswers : SendMessage(source, answer)
  \/ \E i \in 1..Len(hitl.messages), yesNo \in Answers, answer \in ModelAnswers :
       AddToolResult(i, yesNo, answer)
  \/ \E answer \in ModelAnswers : LoopStep(answer)

SpecWorker == InitDO /\ [][NextWorker]_vars
SpecGate == InitDO /\ [][NextGate]_vars

\* Chat requests of every shape arriving at the chat route
NextValidate ==
  \/ \E key \in RouteKeys, body \in ChatBodies, workerStatus \in WorkerStatuses :
       ChatPost(key, body, workerStatus)

SpecValidate == InitRoute /\ [][NextValidate]_vars
SpecConfirm == InitDO /\ [][NextConfirm]_vars

(***************************************************************************)
(* Properties of the rate limiter and the routes                           *)
(***************************************************************************)
SameKey(i, j) == reqs[i].lim = reqs[j].lim /\ reqs[i].key = reqs[j].key

\* Earlier checks of the same limiter and key
Earlier(i) == {j \in 1..(i - 1) : SameKey(i, j)}

Max(S) == CHOOSE x \in S : \A y \in S : y <= x

\* C1: per key, the first check opens a window ending at now + windowMs; of
\* the checks made while now <= resetAt exactly the first maxRequests are
\* allowed; the first check with now > resetAt is allowed, opens a fresh
\* window and leaves the counter at 1.
C1_WindowBehaviour ==
  \A i \in 1..Len(reqs) :
    LET r == reqs[i]
        W == rlConfig[r.lim].windowMs
        N == rlConfig[r.lim].maxRequests
    IN IF Earlier(i) = {} \/ r.t > reqs[Max(Earlier(i))].resetAt
       THEN r.allowed /\ r.resetAt = r.t + W /\ r.count = 1
       ELSE LET p == reqs[Max(Earlier(i))]
                inWindow == {j \in Earlier(i) : reqs[j].resetAt = p.resetAt}
            IN /\ r.resetAt = p.resetAt
               /\ r.allowed <=> Cardinality(inWindow) < N

\* C1 witness: a key is allowed, then denied in the same window, then
\* allowed again in a fresh window after resetAt has passed.
C1_Witness ==
  \E i, j, k \in 1..Len(reqs) :
    /\ i < j /\ j < k /\ SameKey(i, j) /\ SameKey(j, k)
    /\ reqs[i].allowed /\ ~reqs[j].allowed /\ reqs[j].resetAt = reqs[i].resetAt
    /\ reqs[k].allowed /\ reqs[k].t > reqs[j].resetAt /\ reqs[k].count = 1

\* C2: with handlers of several requests in flight at once, per limiter, key
\* and window at most maxRequests requests are admitted, and the stored
\* counter equals the number admitted in the current window (no lost update).
C2_AtomicCheckThenIncrement ==
  \A l \in Limiters, k \in Keys :
    LET mine == {i \in 1..Len(reqs) : reqs[i].lim = l /\ reqs[i].key = k}
        admitted(ra) == {i \in mine : reqs[i].allowed /\ reqs[i].resetAt = ra}
    IN /\ \A i \in mine :
            Cardinality(admitted(reqs[i].resetAt)) <= rlConfig[l].maxRequests
       /\ rlStore[l][k] # NoEntry =>
            rlStore[l][k].count = Cardinality(admitted(rlStore[l][k].resetAt))

\* C2 witness: a request of a key is denied while an admitted request of the
\* same key is still being handled (its handler is suspended at an await).
C2_Witness ==
  \E i, j \in 1..Len(reqs) :
    /\ i < j /\ SameKey(i, j)
    /\ reqs[i].allowed /\ reqs[i].pc \in {"parsing", "forwarded"}
    /\ ~reqs[j].allowed /\ reqs[j].resetAt = reqs[i].resetAt

\* C3: a request the limiter denies is answered 429 with retryAfter in the
\* body details and in the Retry-After header, and is never forwarded.
C3_DeniedIs429 ==
  \A i \in 1..Len(reqs) :
    ~reqs[i].allowed =>
      /\ reqs[i].pc = "done"
      /\ reqs[i].response.status = 429
      /\ reqs[i].retryAfter # Undefined
      /\ reqs[i].response.detailsRetryAfter = reqs[i].retryAfter
      /\ reqs[i].response.headerRetryAfter = reqs[i].retryAfter
      /\ ~reqs[i].forwarded

\* C3 witness: a denied request has been answered, after time has passed
\* inside the window.
C3_Witness ==
  \E i \in 1..Len(reqs) :
    ~reqs[i].allowed /\ reqs[i].response.status = 429 /\ reqs[i].t > 0

\* What getContext() answers from the stored row
StoredContext == GetProjectContext(ctxRow)
NoDuplicates(q) == \A i, j \in 1..Len(q) : q[i] = q[j] => i = j

\* C4: after any sequence of context updates the stored errorLogs and
\* resolvedIssues are the concatenation, in insertion order, of every list
\* supplied so far: no recorded entry has disappeared.
C4_ListEntriesRetained ==
  /\ SeqOf(StoredContext.errorLogs) = expect.errorLogs
  /\ SeqOf(StoredContext.resolvedIssues) = expect.resolvedIssues

\* C5: the stored workerCode and projectName are the last values a partial
\* supplied; an update that supplies none (setWorkerCode(code) without a
\* projectName among them) leaves the stored value as it was.
C5_ScalarsOverwriteOrRetain ==
  /\ OrNull(StoredContext.workerCode) = expect.workerCode
  /\ OrNull(StoredContext.projectName) = expect.projectName

\* C6: starting from the empty context, the stored cloudflareServices holds
\* no tag twice and is, as a set, the union of all tags supplied so far.
C6_ServicesDedupedUnion ==
  /\ NoDuplicates(SeqOf(StoredContext.cloudflareServices))
  /\ Range(SeqOf(StoredContext.cloudflareServices)) = expect.cloudflareServices

\* The orders in which storage may scan the rows of a table
ScanOrders(rows) ==
  {[i \in 1..Len(rows) |-> rows[p[i]]] :
     p \in {q \in [1..Len(rows) -> 1..Len(rows)] :
              \A i, j \in 1..Len(rows) : q[i] = q[j] => i = j}}
NonDecreasing(h) ==
  \A i \in 1..Len(h), j \in 1..Len(h) : i < j => h[i].timestamp <= h[j].timestamp
HistoryAnswers(h, f) ==
  /\ NonDecreasing(h)
  /\ NoDuplicates(h)
  /\ \A i \in 1..Len(h) : Matches(h[i], f) /\ h[i] \in Range(msgs)
  /\ \A n \in {Len(SelectWhere(msgs, f))} :
       Len(h) = IF f.limit > 0 /\ f.limit < n THEN f.limit ELSE n

\* C7: whatever messages were added before, a call of getHistory answers,
\* for every filter and every order in which storage scans the stored
\* messages, messages that match the filter (all of them, or as many as the
\* limit allows) in non-decreasing timestamp order.
C7_HistoryInTimestampOrder ==
  lastOp.op = "getHistory" =>
    \A scan \in ScanOrders(msgs) : \A f \in Filters :
      \A h \in {GetConversationHistory(scan, f)} : HistoryAnswers(h, f)

\* getHistory was called while the table holds a later message before an
\* earlier one
C7_Witness ==
  /\ lastOp.op = "getHistory"
  /\ \E i, j \in 1..Len(msgs) : i < j /\ msgs[i].timestamp > msgs[j].timestamp

\* A step of clearSession() that reports success, or any step of it
ClearSucceeds == \E r \in Rand : ClearSession(0, r)
ClearStep == \E failAt \in ClearSteps, r \in Rand : ClearSession(failAt, r)
\* What getSession() answers after the step
SessionAfter == CacheOf(sessRow')

\* C8: a clearSession() that succeeds leaves getHistory() empty for every
\* filter, getContext() the empty context, and getSession() a session with
\* messageCount = 0, isActive = true and a sessionId different from the one
\* before the clear.
C8_ClearGivesFreshSession ==
  [][ClearSucceeds =>
       /\ \A f \in Filters : GetConversationHistory(msgs', f) = <<>>
       /\ GetProjectContext(ctxRow') = EmptyContext
       /\ sessRow' # NoRow
       /\ SessionAfter.messageCount = 0
       /\ SessionAfter.isActive
       /\ sessRow # NoRow => SessionAfter.sessionId # sessRow.session_id]_vars

\* C9: clearSession is all or nothing: a step of it that deletes the stored
\* messages, one of its later statements failing included, does not leave the
\* old session metadata with its message count in place.
C9_ClearIsAtomic ==
  [][(ClearStep /\ msgs # <<>> /\ msgs' = <<>>) =>
       (sessRow' = NoRow \/ sessRow'.message_count = 0)]_vars

\* C10: a turn whose model asks for another tool call on every step, and
\* which the client does not cancel, makes no more than the step budget of
\* model invocations, and once its stream has ended it has made exactly that
\* many and is Aborted with an error surfaced to the client.
C10_BudgetExhaustionAborts ==
  (turn.kind = "alwaysTool" /\ ~turn.cancelled) =>
    /\ turn.steps <= StepBudget
    /\ turn.pc # "streaming" =>
         (turn.steps = StepBudget /\ turn.pc = "aborted" /\ turn.error)

NoFilter == Filter(NoOpt, Absent, Absent, NoLimit)
RolesOf(h) == [i \in 1..Len(h) |-> h[i].role]

\* The session held the one message of addMessage(user, "hello") when its
\* first turn started; the turn made one model invocation, which asked for
\* no tool, and has finished with no other request in between
HelloThenOneTurn ==
  /\ turn.pc = "finished"
  /\ turn.alone
  /\ turn.steps = 1
  /\ turn.finishReason = "stop"
  /\ Len(turn.messages) = 2
  /\ Len(turn.before) = 1
  /\ turn.before[1].role = "user"
  /\ turn.before[1].content = "hello"

\* C12: from an empty session, addMessage(user, "hello") and then one turn
\* without tool calls leave getHistory() with exactly two messages, the
\* user's first and the assistant's second, and messageCount = 2.
C12_HelloTurnLeavesUserThenAssistant ==
  HelloThenOneTurn =>
    /\ RolesOf(GetConversationHistory(msgs, NoFilter)) = <<"user", "assistant">>
    /\ sessRow # NoRow
    /\ CacheOf(sessRow).messageCount = 2

\* C13: when a write to the store made while persisting a turn fails, the
\* turn ends as a failed turn with an error for the caller and the store
\* holds what it held before the turn: neither message of the turn.
C13_FailedPersistenceIsSurfaced ==
  (turn.pc \in TurnOver /\ turn.writeFailed /\ turn.alone) =>
    /\ turn.pc = "failed"
    /\ turn.error
    /\ msgs = turn.before

\* getMessageCount(): SELECT COUNT(*) FROM messages
GetMessageCount == Len(msgs)

\* C14: after any sequence of addMessage, deleteMessage and clearSession the
\* session's messageCount is the number of messages stored: the value of
\* getMessageCount() and the length of getHistory() without options.
C14_MessageCountIsStoredCount ==
  sessRow # NoRow =>
    /\ CacheOf(sessRow).messageCount = GetMessageCount
    /\ CacheOf(sessRow).messageCount = Len(GetConversationHistory(msgs, NoFilter))

\* The reads and writes of the session store
ReadsAndWrites ==
  {"addMessage", "getHistory", "updateContext", "getContext", "getSession"}

\* C15: every read or write of the store that succeeds (addMessage,
\* getHistory, updateContext, getContext, getSession) leaves the session's
\* lastActivityAt at the time of that operation.
C15_EveryAccessRefreshesActivity ==
  [][(now' = now /\ lastOp'.op \in ReadsAndWrites /\ lastOp'.ok
        /\ sessRow' # NoRow)
       => CacheOf(sessRow').lastActivityAt = GetCurrentTimestamp(now)]_vars

\* The session is there and inactive, in storage and in the cache
Inactive(row, c) ==
  /\ row # NoRow /\ row.is_active = 0 /\ ~CacheOf(row).isActive
  /\ c # NoCache => ~c.isActive

\* C16: deactivate() makes the session inactive, and an inactive session
\* stays inactive through addMessage, getHistory, updateContext, getContext,
\* getSession and deactivate: only a step of clearSession ends it.
C16_InactiveUntilClear ==
  [][/\ (DeactivateSession /\ sessRow # NoRow) => Inactive(sessRow', cache')
     /\ (Inactive(sessRow, cache) /\ ~ClearStep) => Inactive(sessRow', cache')]_vars

\* An inactive session on which each kind of read and write has just run
C16_Witness ==
  /\ Inactive(sessRow, cache)
  /\ lastOp.op \in ReadsAndWrites
  /\ lastOp.ok
  /\ Len(msgs) > 0
  /\ ctxRow # NoRow

\* C17: GET /messages answers, for every query of limit, role, after and
\* before, exactly what getHistory answers for that filter: the messages
\* that satisfy every supplied filter.
C17_EndpointHonoursAllFilters ==
  \A q \in Filters :
    /\ GetMessages(msgs, q) = GetConversationHistory(msgs, q)
    /\ \A i \in 1..Len(GetMessages(msgs, q)) : Matches(GetMessages(msgs, q)[i], q)

\* The two ways a caller reaches the store of a session
StoreChannels == {"state", "sessionRoute"}
\* The store of the session of that id, once it is there
StoreOf(ar, session) == ar[StateSessionId(session)]

\* C18: a request issued for session A, sent to /api/state/* or through
\* the session route, leaves the messages, the project context and the
\* session metadata of every other session B that exists as they were.
C18_SessionsIsolated ==
  [][\A b \in DoNames :
       (/\ lastReq'.via \in StoreChannels
        /\ lastReq'.session \in SessionIds
        /\ lastReq'.session # b
        /\ StoreOf(arena, b) # NoDO)
         => StoreOf(arena', b) = StoreOf(arena, b)]_vars

\* What a request can reach behind the worker's entry point
SessionState == {"store", "chat"}

\* C19: a request that reached the Chat agent or the session store was
\* admitted by RateLimiter.check before.
C19_AdmittedBeforeSessionState ==
  lastReq.reached \in SessionState => lastReq.admitted

\* C20: the model is never invoked while a tool call that needs a
\* confirmation is in the conversation without an accept or reject for its
\* call id.
C20_NoModelCallWhilePending ==
  hitl.unconfirmed = {}

\* The row updateProjectContext(context) leaves when the table holds row
UpdatedRow(row, context, t) ==
  ContextRow(MergeContext(GetProjectContext(row), context, t))
\* The scalar fields getContext() answers from a row
Scalars(row) ==
  [workerCode |-> GetProjectContext(row).workerCode,
   projectName |-> GetProjectContext(row).projectName]

\* C21: for every stored context and every partial P, updateContext(P)
\* applied twice leaves workerCode and projectName as they are after it
\* was applied once.
C21_ScalarOverwriteIdempotent ==
  \A context \in Partials :
    \A once \in {UpdatedRow(ctxRow, context, now)} :
      Scalars(UpdatedRow(once, context, now)) = Scalars(once)

\* A context holding a workerCode and a projectName, reached by updates
C21_Witness ==
  /\ lastOp.op = "updateContext"
  /\ ctxRow # NoRow
  /\ ctxRow.worker_code.k = "text"
  /\ ctxRow.project_name.k = "text"

\* An addMessage whose INSERT was rejected has just answered
AddMessageFailed(op) == op.op = "addMessage" /\ ~op.ok

IsObject(x) == x.k \in {"object", "array", "body"}
IsString(x) == x.k = "string"
Given(x) == x.k \notin {"absent", "undefined"}

\* A chat request of malformed shape
Malformed(body) ==
  \/ body = NotJson
  \/ ~IsObject(body)
  \/ ~Given(Field(body, "message"))
  \/ ~IsString(Field(body, "message"))
  \/ Field(body, "message").len = 0
  \/ Field(body, "message").len > MaxMessageLength
  \/ Given(Field(body, "sessionId"))
       /\ (~IsString(Field(body, "sessionId"))
           \/ Field(body, "sessionId").len > MaxSessionIdLength)
  \/ Given(Field(body, "projectContext"))
       /\ ~IsObject(Field(body, "projectContext"))

\* C23: an admitted chat request of malformed shape is answered with
\* status 400 and is not forwarded to the worker.
C23_MalformedChatRequestIs400 ==
  (lastReq.via = "chatPost" /\ lastReq.admitted /\ Malformed(lastReq.body))
    => (lastReq.status = 400 /\ ~lastReq.forwarded)

\* The turn has stored its assistant message and not yet its user message
BetweenTurnWrites ==
  /\ turn.pc = "persistUser"
  /\ Len(turn.messages) > 0
  /\ turn.messages[Len(turn.messages)] = "assistant"

\* C24: between the write of a turn's assistant message and the write of
\* its user message no other write to the session's messages takes effect:
\* the only step that changes the table then is the turn's second write.
C24_TurnWritesNotInterleaved ==
  [][(BetweenTurnWrites /\ msgs' # msgs) => turn'.pc = "finished"]_vars

LimitUndefined == [k |-> "undefined"]
LimitNaN == [k |-> "NaN"]
\* options?.limit && options.limit > 0: undefined, NaN and 0 are falsy
LimitClause(limit) == limit.k = "number" /\ limit.v > 0
\* getConversationHistory(options) for such a limit
HistoryWithLimit(rows, f, limit) ==
  GetConversationHistory(rows,
    [f EXCEPT !.limit = IF LimitClause(limit) THEN limit.v ELSE NoLimit])

\* parseInt(text, 10) on the characters of text: an optional sign, then
\* the leading decimal digits; none of them gives NaN
Digit == ("0" :> 0) @@ ("1" :> 1) @@ ("2" :> 2) @@ ("3" :> 3) @@ ("4" :> 4)
         @@ ("5" :> 5) @@ ("6" :> 6) @@ ("7" :> 7) @@ ("8" :> 8) @@ ("9" :> 9)
RECURSIVE LeadingDigits(_, _)
LeadingDigits(chars, acc) ==
  IF chars = <<>> \/ Head(chars) \notin DOMAIN Digit THEN acc
  ELSE LeadingDigits(Tail(chars), acc * 10 + Digit[Head(chars)])
ParseInt(chars) ==
  LET negative == chars # <<>> /\ Head(chars) = "-"
      body == IF negative THEN Tail(chars) ELSE chars
  IN IF body = <<>> \/ Head(body) \notin DOMAIN Digit THEN LimitNaN
     ELSE Num((IF negative THEN -1 ELSE 1) * LeadingDigits(body, 0))

\* fetch(), GET /messages?limit=...&role=...: searchParams.get gives null
\* for a parameter that is not there; limit ? parseInt(limit, 10) : undefined
NullParam == <<"null">>
MessagesQuery(rows, limit, role) ==
  HistoryWithLimit(rows, Filter(role, Absent, Absent, NoLimit),
    IF limit # NullParam /\ limit # <<>> THEN ParseInt(limit) ELSE LimitUndefined)

\* The limits callers pass to getHistory, and the texts they put in the
\* query of GET /messages
JsLimits == {LimitUndefined, LimitNaN} \cup {Num(n) : n \in -1..MaxMsgs}
LimitParams ==
  {NullParam, <<>>, <<"a", "b">>, <<"-", "1">>, <<"0">>, <<"1">>, <<"2">>,
   <<"1", "x">>, <<"0", "2">>}
\* What the text of a limit parameter asks for: that many, or all (0)
Wanted(limit) ==
  CASE limit \in {<<"1">>, <<"1", "x">>} -> 1
    [] limit \in {<<"2">>, <<"0", "2">>} -> 2
    [] OTHER -> 0

\* h holds the n most recent of the stored messages that match f (all of
\* them when n is 0), oldest first
MostRecent(h, f, n) ==
  LET matching == {m \in Range(msgs) : Matches(m, f)}
  IN /\ NonDecreasing(h)
     /\ NoDuplicates(h)
     /\ Range(h) \subseteq matching
     /\ Len(h) = IF n > 0 /\ n < Cardinality(matching)
                 THEN n ELSE Cardinality(matching)
     /\ \A m \in matching \ Range(h) : \A i \in 1..Len(h) :
          m.timestamp <= h[i].timestamp

\* C26: getHistory with a limit n > 0 answers the n most recent messages
\* that match the other filters, oldest first; with a limit that is
\* absent, zero, negative or not a number it answers every matching
\* message.  GET /messages does the same for the limit of its query.
C26_LimitKeepsMostRecent ==
  lastOp.op = "getHistory" =>
    /\ \A f \in Filters, limit \in JsLimits :
         MostRecent(HistoryWithLimit(msgs, f, limit), f,
                    IF limit.k = "number" /\ limit.v > 0 THEN limit.v ELSE 0)
    /\ \A limit \in LimitParams, role \in {NoOpt, "user"} :
         MostRecent(MessagesQuery(msgs, limit, role),
                    Filter(role, Absent, Absent, NoLimit), Wanted(limit))

\* getHistory was called while more messages match than a limit of 1
\* lets through, the oldest of them not among the most recent
C26_Witness ==
  /\ lastOp.op = "getHistory"
  /\ \E i, j \in 1..Len(msgs) :
       msgs[i].timestamp < msgs[j].timestamp /\ msgs[i].role = msgs[j].role

\* C27: a check that denies leaves the entry of its key as it was; every
\* stored entry has 1 <= count <= maxRequests; a check for one key leaves
\* the entries of all other keys (and of the other limiter) as they were.
C27_DeniedCheckChangesNothing ==
  [][/\ \A lim \in Limiters, key \in Keys :
          Check(lim, key) =>
            /\ ~reqs'[Len(reqs')].allowed =>
                 rlStore'[lim][key] = rlStore[lim][key]
            /\ \A l \in Limiters, k \in Keys :
                 <<l, k>> # <<lim, key>> => rlStore'[l][k] = rlStore[l][k]
     /\ \A l \in Limiters, k \in Keys :
          rlStore'[l][k] # NoEntry =>
            /\ 1 <= rlStore'[l][k].count
            /\ rlStore'[l][k].count <= rlConfig[l].maxRequests]_vars

\* A check was denied while the same limiter holds the entry of another
\* key whose window is still open
C27_Witness ==
  /\ reqs # <<>>
  /\ ~reqs[Len(reqs)].allowed
  /\ \E k \in Keys \ {reqs[Len(reqs)].key} :
       /\ rlStore[reqs[Len(reqs)].lim][k] # NoEntry
       /\ ~WindowExpired(rlStore[reqs[Len(reqs)].lim][k], now)

C29_TimersDoNotGrow == timers = ModuleLimiters

\* C30: after any sequence of addMessage, getHistory, updateContext,
\* getSession, deactivate and clearSession there is exactly one persisted
\* session record, and the in-memory session (what getSession hands out:
\* sessionId, createdAt, lastActivityAt, messageCount, isActive) equals it.
C30_CacheMatchesStorage ==
  /\ sessRow # NoRow
  /\ cache = CacheOf(sessRow)

====
